---- MODULE Spec2Model ----
(***************************************************************************)
(* A model of ParrotBot (src/parrotbot.py): the quote grammar re_quote,    *)
(* the identity matcher is_same_user, the history scan                     *)
(* search_message_by_quote and the responder quote_message, driven by      *)
(* on_message.                                                             *)
(*                                                                         *)
(* Strings are sequences of one-character strings.  Message ids are the    *)
(* positions in msgs: a message's id is also its creation time.            *)
(***************************************************************************)
EXTENDS Integers, Sequences, FiniteSets, TLC

VARIABLES msgs, deleted, tasks, probe, session

vars == <<msgs, deleted, tasks, probe, session>>

----------------------------------------------------------------------------
(* Bounds of the model.                                                    *)

\* Longest arbitrary body handed to the quote grammar.
MaxBodyLen == 4

\* Longest a and longest c of the composed bodies a + " > " + c.
MaxPartLen == 2

\* Most messages users post in a behaviour of Spec.
MaxPosts == 2

\* Most messages older than the trigger in the histories of SpecScan.
MaxHist == 3

\* Most sessions the module-level loop starts in SpecSession.
MaxSessions == 2

\* Longest hint handed to is_same_user in SpecMatch.
MaxHintLen == 2

\* self.log_fetch_limit, 100 in the source (line 55), scaled down so that a
\* history can be longer than the window.
log_fetch_limit == 2

----------------------------------------------------------------------------
(* Characters and strings.                                                 *)

\* The characters \s matches, among those of the model.
IsSpace(c) == c \in {" ", "\n"}

\* The characters . matches (re.DOTALL is not set): all but the newline.
IsDot(c) == c # "\n"

\* ASCII letters and digits of the model: re.escape leaves them alone.
IsAlnum(c) == c \in {"a", "A", "b", "B", "c", "l", "L", "o", "O", "p", "P",
                     "0", "1", "2"}

\* Case folding of re.IGNORECASE.
LowerChar(c) ==
  CASE c = "A" -> "a"
    [] c = "B" -> "b"
    [] c = "L" -> "l"
    [] c = "O" -> "o"
    [] c = "P" -> "p"
    [] OTHER -> c

\* All strings over alphabet of length 0..n.
RECURSIVE StringsUpTo(_, _)
StringsUpTo(alphabet, n) ==
  IF n = 0 THEN {<<>>}
  ELSE LET shorter == StringsUpTo(alphabet, n - 1)
       IN  shorter \cup {Append(s, c) : s \in shorter, c \in alphabet}

Max(S) == CHOOSE x \in S : \A y \in S : y <= x
Min(S) == CHOOSE x \in S : \A y \in S : x <= y

----------------------------------------------------------------------------
(* re_quote = (?P<author>.*?)\s*>\s*(?P<content>.+), used with fullmatch.  *)

\* s[from..to] consists of characters satisfying \s.
AllSpace(s, from, to) == \A j \in from..to : IsSpace(s[j])

\* s[from..to] consists of characters . matches.
AllDot(s, from, to) == \A j \in from..to : IsDot(s[j])

\* Where the content group can start when > is at position gt: after a run
\* of whitespace, with a non-empty newline-free rest up to the end.
ContentStarts(s, gt) ==
  {m \in (gt + 1)..Len(s) : AllSpace(s, gt + 1, m - 1) /\ AllDot(s, m, Len(s))}

\* The positions of > that end \s*> when the author group is s[1..k].
SeparatorsAfter(s, k) ==
  {gt \in (k + 1)..Len(s) :
     s[gt] = ">" /\ AllSpace(s, k + 1, gt - 1) /\ ContentStarts(s, gt) # {}}

\* The lengths the author group can have in a full match.
AuthorLens(s) ==
  {k \in 0..Len(s) : AllDot(s, 1, k) /\ SeparatorsAfter(s, k) # {}}

\* re_quote.fullmatch(s) is not None.
Fullmatch(s) == AuthorLens(s) # {}

\* A greedy author group, (?P<author>.*), in place of the lazy one.
GreedyAuthorLen(s) == Max(AuthorLens(s))

\* .*? is lazy: the shortest author for which the rest matches.
LazyAuthorLen(s) == Min(AuthorLens(s))

\* The grammar without \s* after the separator: the content starts at once.
UnskippedContentStart(s, gt) == Min(ContentStarts(s, gt))

\* \s* before the content is greedy: the latest start of the content.
GreedyContentStart(s, gt) == Max(ContentStarts(s, gt))

\* re_quote.fullmatch(s).groupdict(), for s with Fullmatch(s).
Groupdict(s) ==
  LET k  == LazyAuthorLen(s)
      gt == CHOOSE g \in SeparatorsAfter(s, k) : TRUE
      m  == GreedyContentStart(s, gt)
  IN  [author |-> SubSeq(s, 1, k), content |-> SubSeq(s, m, Len(s))]

----------------------------------------------------------------------------
(* re.escape and re.search(pattern, text, flags=re.IGNORECASE).            *)

\* re.escape: a backslash before every character that is not alphanumeric.
RECURSIVE re_escape(_)
re_escape(s) ==
  IF s = <<>> THEN <<>>
  ELSE (IF IsAlnum(Head(s)) THEN <<Head(s)>> ELSE <<"\\", Head(s)>>)
       \o re_escape(Tail(s))

\* The pattern as the regex compiler reads it: backslash-x is the literal
\* x, an unescaped dot is any character but the newline, any other
\* character of the model is itself.
RECURSIVE Compile(_)
Compile(p) ==
  IF p = <<>> THEN <<>>
  ELSE IF Head(p) = "\\" /\ Len(p) >= 2
       THEN <<[kind |-> "lit", ch |-> p[2]]>> \o Compile(SubSeq(p, 3, Len(p)))
       ELSE IF Head(p) = "."
            THEN <<[kind |-> "any", ch |-> "."]>> \o Compile(Tail(p))
            ELSE <<[kind |-> "lit", ch |-> Head(p)]>> \o Compile(Tail(p))

\* One compiled token against one character, ignoring case.
TokenMatches(tok, c) ==
  IF tok.kind = "any" THEN IsDot(c) ELSE LowerChar(tok.ch) = LowerChar(c)

\* re.search(p, text, flags=re.IGNORECASE) is not None.
re_search(p, text) ==
  LET toks == Compile(p)
  IN  \E off \in 0..(Len(text) - Len(toks)) :
        \A i \in 1..Len(toks) : TokenMatches(toks[i], text[off + i])

\* s.find(sub) == 0
FindIsZero(s, sub) == Len(sub) <= Len(s) /\ SubSeq(s, 1, Len(sub)) = sub

----------------------------------------------------------------------------
(* Members, messages.                                                      *)

Channels == {1, 2}

Users == {"alice", "bob"}

\* self.user: the bot's own account.
BotUser == "parrot"

\* The discord.User / discord.Member objects of the accounts.
Member(u) ==
  CASE u = "alice" -> [id |-> <<"1", "2">>, name |-> <<"A", "l">>,
                       discriminator |-> <<"0", "1">>,
                       display_name |-> <<"A", "l">>]
    [] u = "bob"   -> [id |-> <<"2", "1">>, name |-> <<"B", "o">>,
                       discriminator |-> <<"0", "2">>,
                       display_name |-> <<"B", "o">>]
    [] OTHER       -> [id |-> <<"0", "0">>, name |-> <<"P", "a">>,
                       discriminator |-> <<"0", "0">>,
                       display_name |-> <<"P", "a">>]

\* is_same_user without the re.escape of line 142: the hint is read as a
\* pattern.
is_same_user_unescaped(user_obj, user_str) ==
  LET full_name == user_obj.name \o <<"#">> \o user_obj.discriminator
  IN  \/ FindIsZero(user_obj.id, user_str)
      \/ re_search(user_str, full_name)
      \/ re_search(user_str, user_obj.display_name)

\* is_same_user(user_obj, user_str)
is_same_user(user_obj, user_str) ==
  LET escaped   == re_escape(user_str)
      full_name == user_obj.name \o <<"#">> \o user_obj.discriminator
  IN  \/ FindIsZero(user_obj.id, escaped)
      \/ re_search(escaped, full_name)
      \/ re_search(escaped, user_obj.display_name)

\* A discord.Message: embed is the id of the message a citation quotes,
\* 0 for a message without embed.
Message(ch, u, body, embed) ==
  [channel |-> ch, author |-> u, content |-> body, embed |-> embed]

----------------------------------------------------------------------------
(* search_message_by_quote.                                                *)

\* The ids of S from the greatest down, at most n of them.
RECURSIVE NewestFirst(_, _)
NewestFirst(S, n) ==
  IF S = {} \/ n = 0 THEN <<>>
  ELSE <<Max(S)>> \o NewestFirst(S \ {Max(S)}, n - 1)

\* A history shared by the channels: the older messages of any channel.
OlderIdsAnyChannel(channel, before) ==
  {i \in 1..(before - 1) : i \notin deleted}

\* logs_from without before: the messages of the channel that exist.
OlderIdsNoBefore(channel, before) ==
  {i \in 1..Len(msgs) : msgs[i].channel = channel /\ i \notin deleted}

\* The messages of the channel that exist and are older than `before`.
OlderIds(channel, before) ==
  {i \in 1..(before - 1) : msgs[i].channel = channel /\ i \notin deleted}

\* logs_from with reverse=True: the fetched messages oldest first.
LogsFromReversed(channel, limit, before) ==
  LET newest == NewestFirst(OlderIds(channel, before), limit)
  IN  [j \in 1..Len(newest) |-> newest[Len(newest) + 1 - j]]

\* logs_from without the limit.
LogsFromUnlimited(channel, limit, before) ==
  NewestFirst(OlderIds(channel, before), before)

\* self.logs_from(channel, limit=limit, before=before): at most limit
\* messages older than before, the most recent first.
LogsFrom(channel, limit, before) == NewestFirst(OlderIds(channel, before), limit)

\* The test of the loop body without the author test of lines 180-181.
SatisfiesAnyAuthor(match, i) ==
  re_search(re_escape(match.content), msgs[i].content)

\* The test of the loop body, lines 180-186.
Satisfies(match, i) ==
  /\ \/ match.author = <<>>
     \/ is_same_user(Member(msgs[i].author), match.author)
  /\ re_search(re_escape(match.content), msgs[i].content)

\* The async for loop from the j-th fetched message on: the message
\* returned (0 for None) and how many messages the loop has looked at.
RECURSIVE ScanFrom(_, _, _)
ScanFrom(logs, j, match) ==
  IF j > Len(logs) THEN [quoted |-> 0, inspected |-> Len(logs)]
  ELSE IF Satisfies(match, logs[j]) THEN [quoted |-> logs[j], inspected |-> j]
       ELSE ScanFrom(logs, j + 1, match)

\* search_message_by_quote(quote), once logs_from has answered.
search_message_by_quote(quote) ==
  ScanFrom(LogsFrom(msgs[quote].channel, log_fetch_limit, quote), 1,
           tasks[quote].match)

----------------------------------------------------------------------------
(* The invocations of on_message, one per message delivered.               *)

\* pc: where the coroutine is suspended ("fetch", "send", "delete"), "done"
\* when it has returned or raised, "none" for a message that was in the
\* channel before the bot ran.  calls: the external calls issued and their
\* answers, in order.  outcome: how the invocation ended.
NoMatch == [author |-> <<>>, content |-> <<>>]

Task(pc, parsed, match, outcome, calls) ==
  [pc |-> pc, parsed |-> parsed, match |-> match, quoted |-> 0,
   inspected |-> 0, may_send |-> "unknown", cite |-> 0,
   outcome |-> outcome, calls |-> calls]

NoTask == Task("none", FALSE, NoMatch, "none", <<>>)

\* A search for the separator in place of the full match.
HasSeparator(content) == \E i \in 1..Len(content) : content[i] = ">"

\* The test of on_message, line 320.
IsQuote(content) == Fullmatch(content)

\* quote_message(quote) up to its first suspension: it enters
\* search_message_by_quote, which parses the body (line 173; groupdict of
\* a failed match raises) and awaits logs_from.
quote_message(content) ==
  IF Fullmatch(content)
  THEN Task("fetch", TRUE, Groupdict(content), "none", <<"fetch">>)
  ELSE Task("done", FALSE, NoMatch, "error_parse", <<>>)

\* on_message(message) up to its first suspension: a body that is no quote
\* ends the handler, a quote enters quote_message.
on_message(content) ==
  IF IsQuote(content)
  THEN quote_message(content)
  ELSE Task("done", FALSE, NoMatch, "ignored", <<>>)

\* What permissions_for(bot_member).send_messages can answer: "absent" is
\* the bot having no member object for the message (a private channel has
\* no server, a server may not list the bot), which raises at line 258/261.
PermAnswers == {"absent", "deny", "allow"}

\* quote_message deleting the trigger before it posts the citation.
AfterFetchDeleteFirst(t, perm) ==
  LET found == search_message_by_quote(t)
      base  == [tasks[t] EXCEPT !.quoted = found.quoted,
                                !.inspected = found.inspected,
                                !.may_send = perm,
                                !.calls = Append(@, "fetch_ok")]
  IN  IF perm = "absent"
      THEN [base EXCEPT !.pc = "done", !.outcome = "error_permission"]
      ELSE IF found.quoted # 0 /\ perm = "allow"
           THEN [base EXCEPT !.pc = "delete", !.calls = Append(@, "delete")]
           ELSE [base EXCEPT !.pc = "done",
                             !.outcome = IF found.quoted = 0 THEN "not_found"
                                         ELSE "no_permission"]

\* quote_message without the test of bot_may_send.
AfterFetchNoPermissionTest(t, perm) ==
  LET found == search_message_by_quote(t)
      base  == [tasks[t] EXCEPT !.quoted = found.quoted,
                                !.inspected = found.inspected,
                                !.may_send = perm,
                                !.calls = Append(@, "fetch_ok")]
  IN  IF perm = "absent"
      THEN [base EXCEPT !.pc = "done", !.outcome = "error_permission"]
      ELSE IF found.quoted # 0
           THEN [base EXCEPT !.pc = "send", !.calls = Append(@, "send")]
           ELSE [base EXCEPT !.pc = "done", !.outcome = "not_found"]

\* quote_message from the answer of logs_from to its next suspension,
\* lines 175-189 and 255-269.
AfterFetch(t, perm) ==
  LET found == search_message_by_quote(t)
      base  == [tasks[t] EXCEPT !.quoted = found.quoted,
                                !.inspected = found.inspected,
                                !.may_send = perm,
                                !.calls = Append(@, "fetch_ok")]
  IN  IF perm = "absent"
      THEN [base EXCEPT !.pc = "done", !.outcome = "error_permission"]
      ELSE IF found.quoted # 0 /\ perm = "allow"
           THEN [base EXCEPT !.pc = "send", !.calls = Append(@, "send")]
           ELSE [base EXCEPT !.pc = "done",
                             !.outcome = IF found.quoted = 0 THEN "not_found"
                                         ELSE "no_permission"]

\* quote_message searching again once the citation is posted.
AfterSendRescan(task, citation) ==
  [task EXCEPT !.pc = "fetch", !.cite = citation,
               !.calls = @ \o <<"send_ok", "fetch">>]

\* quote_message after send_message has returned: lines 271-272.
AfterSend(task, citation) ==
  [task EXCEPT !.pc = "delete", !.cite = citation,
               !.calls = @ \o <<"send_ok", "delete">>]

\* quote_message without the except clause: discord.Forbidden ends it.
AfterForbiddenUncaught(task) ==
  [task EXCEPT !.pc = "done", !.outcome = "error_delete",
               !.calls = Append(@, "delete_forbidden")]

\* quote_message posting the citation again when the delete was refused.
AfterForbiddenResend(task) ==
  [task EXCEPT !.pc = "send", !.calls = @ \o <<"delete_forbidden", "send">>]

\* quote_message after delete_message raised discord.Forbidden: lines 273-274.
AfterForbidden(task) ==
  [task EXCEPT !.pc = "done", !.outcome = "posted_delete_denied",
               !.calls = Append(@, "delete_forbidden")]

\* A handler that issues the failed call again.
RaisedRetry(task, outcome, answer) ==
  [task EXCEPT !.calls = @ \o <<answer, @[Len(@)]>>]

\* An exception that no handler of the coroutine catches ends it.
Raised(task, outcome, answer) ==
  [task EXCEPT !.pc = "done", !.outcome = outcome, !.calls = Append(@, answer)]

\* The messages users posted while the bot ran.
UserPosts == {i \in 1..Len(msgs) : msgs[i].author # BotUser /\ tasks[i].pc # "none"}

\* Message bodies: a quote with an author hint, a quote without, a quote
\* of a dot, a body without separator that the first two quotes can find,
\* a body with a separator and no content, and a body only the quote of a
\* dot finds.
sHintQuote  == <<"a", "l", " ", ">", " ", "b">>
sPlainQuote == <<">", "b">>
sDotQuote   == <<">", ".">>
sText       == <<"a", "B">>
sNoContent  == <<"b", ">">>
sOther      == <<"c", ".">>

\* The bodies users post in Spec.
PostBodies  == {sHintQuote, sText, sNoContent}

\* What the channels hold when the bot starts: nothing, or one message,
\* which was never delivered to on_message.
StartHistories == {<<>>, <<Message(1, "alice", sText, 0)>>}

\* No call of is_same_user under examination.
NoProbe == [user_obj |-> Member(BotUser), user_str |-> <<>>, result |-> "none"]

\* The module-level loop, lines 432-442, inside client.run: one session has
\* been started and is connected.  printed: what the loop has printed;
\* ended_by: the exception that ended the last session; error: the
\* exception that ended the process.
Connected ==
  [pc |-> "running", started |-> 1, printed |-> <<"start">>,
   ended_by |-> "none", error |-> "none"]

Init ==
  /\ msgs \in StartHistories
  /\ deleted = {}
  /\ tasks = [i \in DOMAIN msgs |-> NoTask]
  /\ probe = NoProbe
  /\ session = Connected

\* A user's message is created and delivered to on_message.
UserPost(ch, u, body) ==
  /\ Cardinality(UserPosts) < MaxPosts
  /\ msgs' = Append(msgs, Message(ch, u, body, 0))
  /\ tasks' = Append(tasks, on_message(body))
  /\ UNCHANGED <<deleted, probe, session>>

\* logs_from answers.
FetchOk(t, perm) ==
  /\ tasks[t].pc = "fetch"
  /\ tasks' = [tasks EXCEPT ![t] = AfterFetch(t, perm)]
  /\ UNCHANGED <<msgs, deleted, probe, session>>

\* logs_from raises (an HTTP error).
FetchFail(t) ==
  /\ tasks[t].pc = "fetch"
  /\ tasks' = [tasks EXCEPT ![t] = Raised(@, "error_fetch", "fetch_error")]
  /\ UNCHANGED <<msgs, deleted, probe, session>>

\* The quoted text sent as the body of the message, not in an embed.
CitationAsText(t) ==
  Message(msgs[t].channel, BotUser, msgs[tasks[t].quoted].content, tasks[t].quoted)

\* The message send_message(quote.channel, embed=quote_embed) creates: the
\* quoted text is the description of the embed, the body is empty.
Citation(t) == Message(msgs[t].channel, BotUser, <<>>, tasks[t].quoted)

\* send_message returns: the citation exists, it is delivered to on_message
\* like any message, and the invocation goes on to delete_message.
SendOk(t) ==
  /\ tasks[t].pc = "send"
  /\ msgs' = Append(msgs, Citation(t))
  /\ tasks' = Append([tasks EXCEPT ![t] = AfterSend(@, Len(msgs) + 1)],
                     on_message(Citation(t).content))
  /\ UNCHANGED <<deleted, probe, session>>

\* send_message raises.
SendFail(t) ==
  /\ tasks[t].pc = "send"
  /\ tasks' = [tasks EXCEPT ![t] = Raised(@, "error_send", "send_error")]
  /\ UNCHANGED <<msgs, deleted, probe, session>>

\* delete_message called with the quoted message in place of the trigger.
DeleteOkQuoted(t) ==
  /\ tasks[t].pc = "delete"
  /\ deleted' = deleted \cup {tasks[t].quoted}
  /\ tasks' = [tasks EXCEPT ![t] = [@ EXCEPT !.pc = "done",
                                             !.outcome = "posted_deleted",
                                             !.calls = Append(@, "delete_ok")]]
  /\ UNCHANGED <<msgs, probe, session>>

\* delete_message returns: the trigger is gone.
DeleteOk(t) ==
  /\ tasks[t].pc = "delete"
  /\ deleted' = deleted \cup {t}
  /\ tasks' = [tasks EXCEPT ![t] = [@ EXCEPT !.pc = "done",
                                             !.outcome = "posted_deleted",
                                             !.calls = Append(@, "delete_ok")]]
  /\ UNCHANGED <<msgs, probe, session>>

\* delete_message raises discord.Forbidden.
DeleteForbidden(t) ==
  /\ tasks[t].pc = "delete"
  /\ tasks' = [tasks EXCEPT ![t] = AfterForbidden(@)]
  /\ UNCHANGED <<msgs, deleted, probe, session>>

\* delete_message raises another error.
DeleteFail(t) ==
  /\ tasks[t].pc = "delete"
  /\ tasks' = [tasks EXCEPT ![t] = Raised(@, "error_delete", "delete_error")]
  /\ UNCHANGED <<msgs, deleted, probe, session>>

Next ==
  \/ \E ch \in Channels, u \in Users, body \in PostBodies : UserPost(ch, u, body)
  \/ \E t \in DOMAIN tasks, perm \in PermAnswers : FetchOk(t, perm)
  \/ \E t \in DOMAIN tasks : FetchFail(t)
  \/ \E t \in DOMAIN tasks : SendOk(t)
  \/ \E t \in DOMAIN tasks : SendFail(t)
  \/ \E t \in DOMAIN tasks : DeleteOk(t)
  \/ \E t \in DOMAIN tasks : DeleteForbidden(t)
  \/ \E t \in DOMAIN tasks : DeleteFail(t)

Spec == Init /\ [][Next]_vars

----------------------------------------------------------------------------
(* The quote grammar on arbitrary bodies: one message, with any body of    *)
(* ParseInputs, is delivered to on_message.                                *)

ParseAlphabet == {"a", "b", ">", " ", "\n"}

sSeparator == <<" ", ">", " ">>

NonEmptyStrings(n) == StringsUpTo(ParseAlphabet, n) \ {<<>>}

\* Every body up to MaxBodyLen, and every a + " > " + c with a and c
\* non-empty and up to MaxPartLen.
ParseInputs ==
  StringsUpTo(ParseAlphabet, MaxBodyLen)
    \cup {a \o sSeparator \o c : a \in NonEmptyStrings(MaxPartLen),
                                 c \in NonEmptyStrings(MaxPartLen)}

ParsePost ==
  /\ Len(msgs) <= 1
  /\ UserPosts = {}
  /\ \E body \in ParseInputs : UserPost(1, "alice", body)

NextParse == ParsePost

SpecParse == Init /\ [][NextParse]_vars

----------------------------------------------------------------------------
(* The history scan on arbitrary histories: a quote awaits logs_from in    *)
(* channel 1, after up to MaxHist older messages of both channels and      *)
(* before at most one newer message.                                       *)

ScanMessages ==
  {Message(ch, u, body, 0) : ch \in Channels, u \in Users, body \in {sText, sOther}}

RECURSIVE Histories(_)
Histories(n) ==
  IF n = 0 THEN {<<>>}
  ELSE LET shorter == Histories(n - 1)
       IN  shorter \cup {Append(h, m) : h \in shorter, m \in ScanMessages}

InitScan ==
  \E hist \in Histories(MaxHist), body \in {sHintQuote, sPlainQuote, sDotQuote},
     newer \in {<<>>, <<Message(1, "alice", sText, 0)>>} :
    /\ msgs = hist \o <<Message(1, "bob", body, 0)>> \o newer
    /\ deleted = {}
    /\ tasks = [i \in 1..Len(hist) |-> NoTask]
                 \o <<on_message(body)>>
                 \o [i \in 1..Len(newer) |-> on_message(newer[i].content)]
    /\ probe = NoProbe
    /\ session = Connected

NextScan == \E t \in DOMAIN tasks, perm \in PermAnswers : FetchOk(t, perm)

SpecScan == InitScan /\ [][NextScan]_vars

----------------------------------------------------------------------------
(* The identity matcher on arbitrary users and hints: is_same_user is      *)
(* called once, with a user and a hint of MatchHints.  A Discord id is a   *)
(* string of digits; names and nicknames hold any character.               *)

MatchAlphabet == {"a", "A", "1", "0", ".", "#", "\\"}

MatchHints == StringsUpTo(MatchAlphabet, MaxHintLen)

MatchIds == {<<"1", "2">>, <<"0", "1">>}

MatchNames == {<<"A", "1">>, <<"a", ".">>, <<"\\", "a">>, <<"b">>}

MatchUsers ==
  {[id |-> i, name |-> n, discriminator |-> <<"0", "1">>, display_name |-> d] :
     i \in MatchIds, n \in MatchNames, d \in MatchNames}

InitMatch ==
  /\ msgs = <<>>
  /\ deleted = {}
  /\ tasks = <<>>
  /\ session = Connected
  /\ probe \in [user_obj : MatchUsers, user_str : MatchHints, result : {"none"}]

\* The call returns True or False.
MatchApply ==
  /\ probe.result = "none"
  /\ probe # NoProbe
  /\ probe' = [probe EXCEPT !.result =
                 IF is_same_user(probe.user_obj, probe.user_str)
                 THEN "true" ELSE "false"]
  /\ UNCHANGED <<msgs, deleted, tasks, session>>

NextMatch == MatchApply

SpecMatch == InitMatch /\ [][NextMatch]_vars

----------------------------------------------------------------------------
(* Two invocations at once: each channel holds one older message, a quote  *)
(* is delivered in channel 1 and then one in channel 2, and the two        *)
(* coroutines of on_message interleave at their awaits.                    *)

PairSeeds ==
  {<<Message(1, u, b, 0), Message(2, v, c, 0)>> :
     u \in Users, v \in Users, b \in {sText, sOther}, c \in {sText, sOther}}

PairQuotes == {sHintQuote, sPlainQuote}

InitPair ==
  \E seeds \in PairSeeds, first \in PairQuotes, second \in PairQuotes :
    /\ msgs = seeds \o <<Message(1, "bob", first, 0), Message(2, "bob", second, 0)>>
    /\ deleted = {}
    /\ tasks = [i \in 1..Len(seeds) |-> NoTask]
                 \o <<on_message(first), on_message(second)>>
    /\ probe = NoProbe
    /\ session = Connected

\* The event loop resumes the coroutine of t with the answer to the call
\* it awaits.
Resume(t) ==
  \/ \E perm \in PermAnswers : FetchOk(t, perm)
  \/ FetchFail(t)
  \/ SendOk(t)
  \/ SendFail(t)
  \/ DeleteOk(t)
  \/ DeleteForbidden(t)
  \/ DeleteFail(t)

NextPair == \E t \in DOMAIN tasks : Resume(t)

SpecPair == InitPair /\ [][NextPair]_vars

----------------------------------------------------------------------------
(* A fetch that never returns: a quote in channel 1 awaits logs_from and   *)
(* the provider never answers it, while users post in channel 2.  The      *)
(* calls of the other invocations are answered and the event loop runs a   *)
(* coroutine whose call has been answered: weak fairness of the loop's     *)
(* step.                                                                   *)

LiveSeeds ==
  {<<Message(1, "alice", b, 0), Message(2, v, c, 0)>> :
     v \in Users, b \in {sText, sOther}, c \in {sText, sOther}}

\* The invocation whose logs_from never returns: the first message
\* delivered.
Hung == Len(CHOOSE seeds \in LiveSeeds : TRUE) + 1

\* The ids a behaviour of SpecLive can reach: the seeds, the posts and one
\* citation for each post.
LiveIds == 1..(Hung + 2 * MaxPosts)

InitLive ==
  \E seeds \in LiveSeeds :
    /\ msgs = Append(seeds, Message(1, "bob", sHintQuote, 0))
    /\ deleted = {}
    /\ tasks = [i \in 1..Len(seeds) |-> NoTask] \o <<on_message(sHintQuote)>>
    /\ probe = NoProbe
    /\ session = Connected

LivePost == \E u \in Users, body \in PostBodies : UserPost(2, u, body)

\* on_message awaited one event after the other: a coroutine runs only
\* when every earlier one has ended.
ReadyInOrder(t) ==
  /\ t # Hung
  /\ \A u \in 1..(t - 1) : tasks[u].pc \in {"done", "none"}

\* Each event is dispatched as a task of its own: a coroutine is resumed
\* when the call it awaits has been answered, whatever the others await.
Ready(t) == t # Hung

LiveStep(t) == t \in DOMAIN tasks /\ Ready(t) /\ Resume(t)

\* The event loop runs one of the coroutines that can go on.
LoopStep == \E t \in LiveIds : LiveStep(t)

NextLive == LivePost \/ LoopStep

SpecLive == InitLive /\ [][NextLive]_vars /\ WF_vars(LoopStep)

----------------------------------------------------------------------------
(* One invocation to its end: a quote of channel 1, after MaxHist older    *)
(* messages of the channel, goes on from logs_from through send_message    *)
(* and delete_message.  Every call is answered and the event loop resumes  *)
(* the coroutine: weak fairness of its steps.                              *)

RunMessages == {Message(1, "alice", sText, 0), Message(1, "bob", sOther, 0)}

RunQuotes == {sHintQuote, sPlainQuote, sDotQuote}

InitRun ==
  \E hist \in [1..MaxHist -> RunMessages], body \in RunQuotes :
    /\ msgs = Append(hist, Message(1, "bob", body, 0))
    /\ deleted = {}
    /\ tasks = [i \in 1..Len(hist) |-> NoTask] \o <<on_message(body)>>
    /\ probe = NoProbe
    /\ session = Connected

NextRun == \E t \in DOMAIN tasks : Resume(t)

SpecRun == InitRun /\ [][NextRun]_vars /\ WF_vars(NextRun)

----------------------------------------------------------------------------
(* The module-level loop, lines 432-442: while True, print the start       *)
(* line and call client.run; on ConnectionResetError print the notice and  *)
(* call sleep(5).  While a session runs, one message is delivered and its  *)
(* invocation goes on.                                                     *)

\* The names a call at module level can find: the imports of lines 19-24,
\* the class, what the configuration code assigns, and the builtins the
\* module uses.  Nothing binds sleep: there is no "from time import sleep".
GlobalNames ==
  {"discord", "asyncio", "datetime", "json", "re", "urllib", "ParrotBot",
   "config", "configfile", "configfile_needs_update", "answer", "client",
   "print", "open", "input"}

\* Evaluating a call of a global name: a name that is not bound raises
\* NameError.
CallGlobal(name) == IF name \in GlobalNames THEN "returned" ELSE "NameError"

\* The loop before its first iteration.
AtLoop ==
  [pc |-> "loop", started |-> 0, printed |-> <<>>,
   ended_by |-> "none", error |-> "none"]

InitSession ==
  /\ msgs \in StartHistories
  /\ deleted = {}
  /\ tasks = [i \in DOMAIN msgs |-> NoTask]
  /\ probe = NoProbe
  /\ session = AtLoop

\* Lines 434-436: the start line is printed and client.run is entered.
StartSession ==
  /\ session.pc = "loop"
  /\ session.started < MaxSessions
  /\ session' = [session EXCEPT !.pc = "running", !.started = @ + 1,
                                !.printed = Append(@, "start")]
  /\ UNCHANGED <<msgs, deleted, tasks, probe>>

\* client.run raises ConnectionResetError: the except clause of lines
\* 437-442 prints the notice and calls sleep(5); if the call returns the
\* loop goes round, if it raises the exception ends the process.
SessionReset ==
  /\ session.pc = "running"
  /\ session' = [session EXCEPT
                   !.pc = IF CallGlobal("sleep") = "returned"
                          THEN "loop" ELSE "terminated",
                   !.printed = Append(@, "lost"),
                   !.ended_by = "ConnectionResetError",
                   !.error = IF CallGlobal("sleep") = "returned"
                             THEN "none" ELSE CallGlobal("sleep")]
  /\ UNCHANGED <<msgs, deleted, tasks, probe>>

\* client.run returns (the client was closed): the loop goes round.
SessionReturns ==
  /\ session.pc = "running"
  /\ session' = [session EXCEPT !.pc = "loop", !.ended_by = "none"]
  /\ UNCHANGED <<msgs, deleted, tasks, probe>>

\* client.run raises an exception the loop does not catch.
SessionRaises ==
  /\ session.pc = "running"
  /\ session' = [session EXCEPT !.pc = "terminated", !.ended_by = "other",
                                !.error = "other"]
  /\ UNCHANGED <<msgs, deleted, tasks, probe>>

\* A message is delivered to the running session.
SessionPost ==
  /\ session.pc = "running"
  /\ UserPosts = {}
  /\ \E ch \in Channels, u \in Users, body \in PostBodies : UserPost(ch, u, body)

\* The running session resumes a coroutine.
SessionStep ==
  /\ session.pc = "running"
  /\ \E t \in DOMAIN tasks : Resume(t)

NextSession ==
  \/ StartSession
  \/ SessionReset
  \/ SessionReturns
  \/ SessionRaises
  \/ SessionPost
  \/ SessionStep

SpecSession == InitSession /\ [][NextSession]_vars

----------------------------------------------------------------------------
(* Properties of the history scan, under SpecScan.                         *)

\* The invocation t leaves the await of logs_from with an answer.
FetchAnswered(t) ==
  /\ tasks[t].pc = "fetch"
  /\ tasks'[t].pc # "fetch"
  /\ tasks'[t].outcome # "error_fetch"

\* The log_fetch_limit most recent messages of t's channel older than t.
Window(t) ==
  LET older == OlderIds(msgs[t].channel, t)
  IN  {i \in older : Cardinality({j \in older : j > i}) < log_fetch_limit}

\* The messages of a set that satisfy the pattern of t.
Satisfying(t, S) == {i \in S : Satisfies(tasks[t].match, i)}

\* C1: when a message among the log_fetch_limit most recent messages older
\* than the trigger satisfies the pattern, the scan returns the most recent
\* such message, never an older one.
C1_ScanOrdering ==
  [][\A t \in DOMAIN tasks :
       (FetchAnswered(t) /\ Satisfying(t, Window(t)) # {})
         => tasks'[t].quoted = Max(Satisfying(t, Window(t)))]_vars

\* A scan has returned a message although an older message of the window
\* satisfies the pattern too.
C1_Witness ==
  \E t \in DOMAIN tasks :
    /\ tasks[t].quoted # 0
    /\ \E i \in Satisfying(t, Window(t)) : i < tasks[t].quoted

\* C2: when no message of the window satisfies the pattern the scan returns
\* None, whatever older messages hold, and the loop never looks at more
\* than log_fetch_limit messages.
C2_WindowCutoff ==
  [][\A t \in DOMAIN tasks :
       FetchAnswered(t)
         => /\ tasks'[t].inspected <= log_fetch_limit
            /\ Satisfying(t, Window(t)) = {} => tasks'[t].quoted = 0]_vars

\* A scan has returned None although a message older than the window
\* satisfies the pattern.
C2_Witness ==
  \E t \in DOMAIN tasks :
    /\ tasks[t].outcome = "not_found"
    /\ tasks[t].inspected = log_fetch_limit
    /\ Satisfying(t, OlderIds(msgs[t].channel, t) \ Window(t)) # {}

----------------------------------------------------------------------------
(* Properties of the quote grammar, under SpecParse.                       *)

\* The places where " > " occurs in a body.
Splits(body) ==
  {i \in 1..(Len(body) - 2) : SubSeq(body, i, i + 2) = sSeparator}

HasChar(s, c) == \E j \in 1..Len(s) : s[j] = c

\* Non-empty, without leading and without trailing whitespace.
IsTrimmed(s) == s # <<>> /\ ~IsSpace(s[1]) /\ ~IsSpace(s[Len(s)])

\* The body of message t is a + " > " + c and parses to exactly a and c.
ParsesTo(t, a, c) ==
  tasks[t].parsed /\ tasks[t].match = [author |-> a, content |-> c]

\* C3 as stated: every a + " > " + c with a non-empty and trimmed and c
\* non-empty parses to author a and content c.
C3_AsStated ==
  \A t \in DOMAIN tasks : \A i \in Splits(msgs[t].content) :
    LET body == msgs[t].content
        a    == SubSeq(body, 1, i - 1)
        c    == SubSeq(body, i + 3, Len(body))
    IN  (IsTrimmed(a) /\ c # <<>>) => ParsesTo(t, a, c)

\* C3 amended: it holds when moreover a holds neither > nor a newline and c
\* holds no newline and does not start with whitespace.
C3_ParseWellFormed ==
  \A t \in DOMAIN tasks : \A i \in Splits(msgs[t].content) :
    LET body == msgs[t].content
        a    == SubSeq(body, 1, i - 1)
        c    == SubSeq(body, i + 3, Len(body))
    IN  (/\ IsTrimmed(a) /\ ~HasChar(a, ">") /\ ~HasChar(a, "\n")
         /\ c # <<>> /\ ~IsSpace(c[1]) /\ ~HasChar(c, "\n"))
          => ParsesTo(t, a, c)

\* A body a + " > " + c, with a of two characters and c holding a >, has
\* been parsed to a and c.
C3_Witness ==
  \E t \in DOMAIN tasks : \E i \in Splits(msgs[t].content) :
    LET body == msgs[t].content
        a    == SubSeq(body, 1, i - 1)
        c    == SubSeq(body, i + 3, Len(body))
    IN  /\ IsTrimmed(a) /\ ~HasChar(a, ">") /\ ~HasChar(a, "\n") /\ Len(a) = 2
        /\ c # <<>> /\ ~IsSpace(c[1]) /\ ~HasChar(c, "\n") /\ HasChar(c, ">")
        /\ ParsesTo(t, a, c)

HasNonSpace(s) == \E j \in 1..Len(s) : ~IsSpace(s[j])

\* C4 as stated: the content of every parsed body holds a character that is
\* no whitespace, and a non-empty author has no leading and no trailing
\* whitespace.
C4_AsStated ==
  \A t \in DOMAIN tasks :
    tasks[t].parsed =>
      /\ HasNonSpace(tasks[t].match.content)
      /\ tasks[t].match.author # <<>> => IsTrimmed(tasks[t].match.author)

\* C4 amended: the content of every parsed body is non-empty and a
\* non-empty author has no trailing whitespace; when the body has no leading
\* and no trailing whitespace, the content holds a character that is no
\* whitespace and a non-empty author has no leading whitespace either.
C4_PatternInvariant ==
  \A t \in DOMAIN tasks :
    tasks[t].parsed =>
      LET author  == tasks[t].match.author
          content == tasks[t].match.content
      IN  /\ content # <<>>
          /\ author # <<>> => ~IsSpace(author[Len(author)])
          /\ IsTrimmed(msgs[t].content)
               => /\ HasNonSpace(content)
                  /\ author # <<>> => IsTrimmed(author)

\* A trimmed body with whitespace on both sides of the separator has been
\* parsed to a non-empty author.
C4_Witness ==
  \E t \in DOMAIN tasks :
    /\ tasks[t].parsed
    /\ IsTrimmed(msgs[t].content)
    /\ Splits(msgs[t].content) # {}
    /\ tasks[t].match.author # <<>>
    /\ HasNonSpace(tasks[t].match.content)

----------------------------------------------------------------------------
(* Properties of the responder, under Spec.                                *)

\* How often a call or an answer occurs in the log of an invocation.
Count(calls, what) == Cardinality({k \in DOMAIN calls : calls[k] = what})

\* The invocations: every message delivered to on_message.
Invocations == {t \in DOMAIN tasks : tasks[t].pc # "none"}

\* The citation of invocation t is in its channel.
CitationPosted(t) ==
  /\ tasks[t].cite \in DOMAIN msgs
  /\ tasks[t].cite \notin deleted
  /\ msgs[tasks[t].cite] = Message(msgs[t].channel, BotUser, <<>>, tasks[t].quoted)

\* C5: a message whose body does not parse, in particular one without
\* separator, is ignored: its invocation ends at once without an error, it
\* never fetches the history, sends or deletes.
C5_NonQuotesIgnored ==
  \A t \in Invocations :
    (~Fullmatch(msgs[t].content) \/ ~HasChar(msgs[t].content, ">"))
      => /\ tasks[t].pc = "done"
         /\ tasks[t].outcome = "ignored"
         /\ tasks[t].calls = <<>>
         /\ t \notin deleted

\* A body with a separator that does not parse has been ignored while
\* another invocation has posted a citation.
C5_Witness ==
  /\ \E t \in Invocations :
       HasChar(msgs[t].content, ">") /\ tasks[t].outcome = "ignored"
  /\ \E t \in Invocations : Count(tasks[t].calls, "send_ok") = 1

\* C6: a delete is attempted only after the send has returned, and a failed
\* delete leaves the citation posted, and posted once.
C6_PostBeforeDelete ==
  \A t \in Invocations :
    /\ \A k \in DOMAIN tasks[t].calls :
         tasks[t].calls[k] = "delete"
           => \E j \in 1..(k - 1) : tasks[t].calls[j] = "send_ok"
    /\ t \in deleted => Count(tasks[t].calls, "send_ok") = 1
    /\ (Count(tasks[t].calls, "delete_forbidden")
          + Count(tasks[t].calls, "delete_error") > 0)
         => /\ CitationPosted(t)
            /\ Count(tasks[t].calls, "send") = 1
            /\ tasks[t].pc = "done"

\* A delete has failed after the citation was posted.
C6_Witness ==
  \E t \in Invocations :
    /\ Count(tasks[t].calls, "delete_error") = 1
    /\ CitationPosted(t)

\* C7: a match without the permission to send ends the invocation with no
\* send and no delete, and the trigger stays.
C7_NoPermissionNoAction ==
  \A t \in Invocations :
    (tasks[t].quoted # 0 /\ tasks[t].may_send = "deny")
      => /\ tasks[t].pc = "done"
         /\ tasks[t].outcome = "no_permission"
         /\ Count(tasks[t].calls, "send") = 0
         /\ Count(tasks[t].calls, "delete") = 0
         /\ tasks[t].cite = 0
         /\ t \notin deleted

\* A match has been found where the bot may not send.
C7_Witness ==
  \E t \in Invocations :
    /\ tasks[t].quoted # 0
    /\ tasks[t].may_send = "deny"
    /\ tasks[t].outcome = "no_permission"

\* C8 as stated: a scan that returns None ends the invocation with no send,
\* no delete and no error, whatever the permission lookup would answer.
C8_AsStated ==
  \A t \in Invocations :
    (Count(tasks[t].calls, "fetch_ok") = 1 /\ tasks[t].quoted = 0)
      => /\ tasks[t].outcome = "not_found"
         /\ Count(tasks[t].calls, "send") = 0
         /\ Count(tasks[t].calls, "delete") = 0

\* C9: a delete refused with discord.Forbidden ends the invocation normally,
\* citation posted and trigger present; any other failure of the delete
\* ends it with that error; the delete is called once in both cases.
C9_DeleteFailure ==
  \A t \in Invocations :
    /\ Count(tasks[t].calls, "delete_forbidden") > 0
         => /\ tasks[t].pc = "done"
            /\ tasks[t].outcome = "posted_delete_denied"
            /\ CitationPosted(t)
            /\ t \notin deleted
            /\ Count(tasks[t].calls, "delete") = 1
    /\ Count(tasks[t].calls, "delete_error") > 0
         => /\ tasks[t].pc = "done"
            /\ tasks[t].outcome = "error_delete"
            /\ Count(tasks[t].calls, "delete") = 1

\* A delete has been refused with discord.Forbidden.
C9_Witness ==
  \E t \in Invocations :
    /\ Count(tasks[t].calls, "delete_forbidden") = 1
    /\ tasks[t].outcome = "posted_delete_denied"

\* The calls of a kind issued by all invocations together.
RECURSIVE TotalCalls(_, _)
TotalCalls(S, what) ==
  IF S = {} THEN 0
  ELSE LET t == CHOOSE x \in S : TRUE
       IN  Count(tasks[t].calls, what) + TotalCalls(S \ {t}, what)

\* The invocations that found a match and may send.
Resolved == {t \in Invocations : tasks[t].quoted # 0 /\ tasks[t].may_send = "allow"}

\* C10: an invocation that finds a match and may send calls send exactly
\* once and delete at most once, any other calls neither; over all events
\* there are as many sends as resolved quotes and no more deletes than sends.
C10_SideEffectCount ==
  /\ \A t \in Invocations :
       /\ Count(tasks[t].calls, "send") = (IF t \in Resolved THEN 1 ELSE 0)
       /\ Count(tasks[t].calls, "delete") <= Count(tasks[t].calls, "send")
  /\ TotalCalls(Invocations, "send") = Cardinality(Resolved)
  /\ TotalCalls(Invocations, "delete") <= TotalCalls(Invocations, "send")

\* Two quotes have been resolved, one with its trigger deleted and one
\* whose send failed.
C10_Witness ==
  /\ Cardinality(Resolved) = 2
  /\ \E t \in Resolved : t \in deleted
  /\ \E t \in Resolved : tasks[t].outcome = "error_send"

----------------------------------------------------------------------------
(* Properties of the identity matcher, under SpecMatch.                    *)

\* s starts with pre, character for character.
StartsWith(s, pre) ==
  Len(pre) <= Len(s) /\ \A k \in 1..Len(pre) : s[k] = pre[k]

\* sub occurs in text as a literal substring, letters compared without case.
ContainsIgnoreCase(text, sub) ==
  \E off \in 0..(Len(text) - Len(sub)) :
    \A k \in 1..Len(sub) : LowerChar(text[off + k]) = LowerChar(sub[k])

HasSpecial(s) == \E k \in 1..Len(s) : ~IsAlnum(s[k])

\* The three ways a hint designates a user.
IdentityMatcher(u, h) ==
  \/ StartsWith(u.id, h)
  \/ ContainsIgnoreCase(u.name \o <<"#">> \o u.discriminator, h)
  \/ ContainsIgnoreCase(u.display_name, h)

----------------------------------------------------------------------------
(* Soundness of the scan result, under SpecScan.                           *)

\* The messages of a set that hold the fragment of t, whoever wrote them.
Holding(t, S) ==
  {i \in S : ContainsIgnoreCase(msgs[i].content, tasks[t].match.content)}

\* C12: a message returned by the scan holds the fragment as a literal
\* substring, letters compared without case; with a hint its author is
\* designated by the hint; without a hint it is the most recent message of
\* the window that holds the fragment, whoever wrote it.
C12_ScanSoundness ==
  \A t \in DOMAIN tasks :
    tasks[t].quoted # 0 =>
      LET q == tasks[t].quoted
          m == tasks[t].match
      IN  /\ q \in Holding(t, Window(t))
          /\ m.author # <<>> => IdentityMatcher(Member(msgs[q].author), m.author)
          /\ m.author = <<>> => q = Max(Holding(t, Window(t)))

\* A scan with a hint has returned a message and passed over a more recent
\* message of the window that holds the fragment but is not of that author.
C12_Witness ==
  \E t \in DOMAIN tasks :
    /\ tasks[t].quoted # 0
    /\ tasks[t].match.author # <<>>
    /\ \E i \in Holding(t, Window(t)) :
         /\ i > tasks[t].quoted
         /\ ~IdentityMatcher(Member(msgs[i].author), tasks[t].match.author)

----------------------------------------------------------------------------
(* Independence of concurrent invocations, under SpecPair.                 *)

\* The quotes delivered to on_message that entered quote_message.
Quotes == {t \in DOMAIN tasks : tasks[t].parsed}

\* C13: for two quotes in different channels whose invocations interleave
\* at their awaits, no step changes what the pending scan of an invocation
\* returns, a step of one invocation changes neither the record nor the
\* trigger of the other, and the citation goes to the invocation's own
\* channel: match result and send/delete calls are those of a run alone.
C13_Independence ==
  [][\A t \in Quotes :
       /\ tasks[t].pc = "fetch"
            => search_message_by_quote(t)' = search_message_by_quote(t)
       /\ tasks'[t] # tasks[t]
            => /\ \A u \in DOMAIN tasks \ {t} : tasks'[u] = tasks[u]
               /\ deleted' \subseteq deleted \cup {t}
               /\ \A i \in (Len(msgs) + 1)..Len(msgs') :
                    msgs'[i].channel = msgs[t].channel]_vars

\* Both invocations have posted and deleted, and the second quote was
\* answered before the first: its citation is the older one.
C13_Witness ==
  \E t \in Quotes, u \in Quotes :
    /\ t < u
    /\ msgs[t].channel # msgs[u].channel
    /\ tasks[t].outcome = "posted_deleted"
    /\ tasks[u].outcome = "posted_deleted"
    /\ tasks[u].cite < tasks[t].cite

----------------------------------------------------------------------------
(* Liveness beside a fetch that never returns, under SpecLive.             *)

\* The invocations of the messages delivered after the hung one have all
\* ended, and each that had its send answered has its citation posted.
LaterOnesServed ==
  \A t \in DOMAIN tasks :
    t > Hung => /\ tasks[t].pc = "done"
                /\ Count(tasks[t].calls, "send_ok") = 1 => tasks[t].cite # 0

\* C14: while the logs_from of one invocation never returns, the messages
\* delivered afterwards in another channel are processed to completion:
\* again and again, and for good once the users stop posting, all of their
\* invocations have ended.
C14_NoHeadOfLineBlocking == []<>LaterOnesServed

\* The first invocation still awaits logs_from and a later quote of
\* channel 2 has been answered with a citation and deleted.
C14_Witness ==
  /\ tasks[Hung].pc = "fetch"
  /\ \E t \in DOMAIN tasks :
       /\ t > Hung
       /\ msgs[t].channel # msgs[Hung].channel
       /\ tasks[t].outcome = "posted_deleted"

----------------------------------------------------------------------------
(* Failures of the external calls, under Spec.                             *)

\* The last entry of the log of invocation t.
LastCall(t) == tasks[t].calls[Len(tasks[t].calls)]

\* C15: a failed fetch ends the invocation with that error, without send
\* and without delete; a failed send ends it with that error, without
\* delete and without a second send; the failure is the last entry of the
\* log, and no invocation fetches, sends or deletes a second time.
C15_NoRetry ==
  \A t \in Invocations :
    /\ Count(tasks[t].calls, "fetch") <= 1
    /\ Count(tasks[t].calls, "send") <= 1
    /\ Count(tasks[t].calls, "delete") <= 1
    /\ Count(tasks[t].calls, "fetch_error") > 0
         => /\ tasks[t].pc = "done"
            /\ tasks[t].outcome = "error_fetch"
            /\ LastCall(t) = "fetch_error"
            /\ Count(tasks[t].calls, "send") = 0
            /\ Count(tasks[t].calls, "delete") = 0
            /\ t \notin deleted
    /\ Count(tasks[t].calls, "send_error") > 0
         => /\ tasks[t].pc = "done"
            /\ tasks[t].outcome = "error_send"
            /\ LastCall(t) = "send_error"
            /\ Count(tasks[t].calls, "delete") = 0
            /\ tasks[t].cite = 0
            /\ t \notin deleted

\* One invocation has ended with a failed fetch and another with a failed
\* send.
C15_Witness ==
  /\ \E t \in Invocations : tasks[t].outcome = "error_fetch"
  /\ \E t \in Invocations : tasks[t].outcome = "error_send"

----------------------------------------------------------------------------
(* Candidates of the scan, under SpecScan: the quote awaits logs_from      *)
(* while a newer message arrives in its channel.                           *)

\* C16: whatever arrives in the channel while the scan is in progress, the
\* message the scan returns is in the trigger's channel and older than the
\* trigger: it is neither the trigger nor a message that came after it.
C16_OnlyOlderCandidates ==
  \A t \in DOMAIN tasks :
    tasks[t].quoted # 0
      => /\ tasks[t].quoted \in 1..(t - 1)
         /\ msgs[tasks[t].quoted].channel = msgs[t].channel

\* A scan has returned an older message although a message that satisfies
\* its pattern arrived in the channel after the trigger and before the
\* answer of logs_from.
C16_Witness ==
  \E t \in DOMAIN tasks :
    /\ tasks[t].quoted # 0
    /\ \E i \in (t + 1)..Len(msgs) :
         msgs[i].channel = msgs[t].channel /\ Satisfies(tasks[t].match, i)

----------------------------------------------------------------------------
(* Termination of an invocation, under SpecRun.                            *)

\* How an invocation can end.
TerminalOutcomes ==
  {"ignored", "not_found", "no_permission", "posted_deleted",
   "posted_delete_denied", "error_parse", "error_fetch", "error_permission",
   "error_send", "error_delete"}

\* How far a coroutine has come.
Rank(pc) ==
  CASE pc = "fetch"  -> 1
    [] pc = "send"   -> 2
    [] pc = "delete" -> 3
    [] OTHER         -> 4

\* Every invocation has ended.
AllEnded == \A t \in Invocations : tasks[t].pc = "done"

\* C17: with every external call answered, every invocation ends, with one
\* of the terminal outcomes and having looked at no more than
\* log_fetch_limit messages; each of its steps takes it further along
\* fetch, send, delete, and it is never left without a step to take.
C17_Termination ==
  /\ [][\A t \in Invocations :
          tasks'[t] # tasks[t] => Rank(tasks'[t].pc) > Rank(tasks[t].pc)]_vars
  /\ [](\A t \in Invocations :
          /\ tasks[t].inspected <= log_fetch_limit
          /\ tasks[t].pc = "done" <=> tasks[t].outcome \in TerminalOutcomes)
  /\ []<>AllEnded

\* An invocation has ended after it looked at log_fetch_limit messages, in
\* a channel that holds more older messages than that.
C17_Witness ==
  \E t \in Invocations :
    /\ tasks[t].pc = "done"
    /\ Count(tasks[t].calls, "send_ok") = 1
    /\ tasks[t].inspected = log_fetch_limit
    /\ Cardinality(OlderIds(msgs[t].channel, t)) > log_fetch_limit

----------------------------------------------------------------------------
(* Frame of the responder, under Spec.                                     *)

\* C18: the only message an invocation deletes is its own trigger, at the
\* answer of its delete_message and after its citation was posted; the
\* quoted message and every other message stay as they are: the history
\* only grows, and no invocation without a posted citation deletes.
C18_Frame ==
  /\ [][/\ \A i \in DOMAIN msgs : i \in DOMAIN msgs' /\ msgs'[i] = msgs[i]
        /\ deleted \subseteq deleted'
        /\ \A d \in deleted' \ deleted :
             /\ tasks[d].pc = "delete"
             /\ tasks'[d].pc = "done"
             /\ tasks[d].quoted # d
             /\ \A u \in DOMAIN tasks \ {d} : tasks'[u] = tasks[u]]_vars
  /\ [](\A d \in deleted :
          /\ tasks[d].parsed
          /\ Count(tasks[d].calls, "send_ok") = 1
          /\ Count(tasks[d].calls, "delete_ok") = 1
          /\ tasks[d].cite \in DOMAIN msgs
          /\ msgs[d].author # BotUser)

\* A trigger has been deleted; the message it quoted and the citation are
\* in the channel.
C18_Witness ==
  \E t \in deleted :
    /\ tasks[t].quoted \notin deleted
    /\ msgs[tasks[t].quoted].channel = msgs[t].channel
    /\ CitationPosted(t)

----------------------------------------------------------------------------
(* The bot's own messages, under Spec.                                     *)

\* The messages the bot posted.
BotPosts == {i \in DOMAIN msgs : msgs[i].author = BotUser}

\* The invocations that issued a call.
Acting == {t \in Invocations : tasks[t].calls # <<>>}

\* The quotes users posted.
UserQuotes == {t \in UserPosts : Fullmatch(msgs[t].content)}

\* C19: a citation has an empty body, which is no quote: delivered to
\* on_message it is ignored, so it causes no fetch, send or delete; the
\* invocations that act are invocations of quotes users posted, and there
\* are no more citations than such quotes.
C19_NoSelfTrigger ==
  /\ \A i \in BotPosts :
       /\ msgs[i].content = <<>>
       /\ ~Fullmatch(msgs[i].content)
       /\ tasks[i].pc = "done"
       /\ tasks[i].outcome = "ignored"
       /\ tasks[i].calls = <<>>
  /\ Acting \subseteq UserQuotes
  /\ Cardinality(BotPosts) <= Cardinality(UserQuotes)

\* Two citations have been posted, the second quoting a quote, and both
\* were delivered to on_message.
C19_Witness ==
  /\ Cardinality(BotPosts) = 2
  /\ \E i \in BotPosts : Fullmatch(msgs[msgs[i].embed].content)

----------------------------------------------------------------------------
(* The session loop, under SpecSession.                                    *)

\* C20: a session that ends with a connection reset is reported and is
\* followed, after the wait, by a new session: the process never ends
\* because of a connection reset.
C20_AsStated ==
  session.ended_by = "ConnectionResetError"
    => /\ session.printed[Len(session.printed)] \in {"lost", "start"}
       /\ session.pc \in {"loop", "running"}
       /\ session.error = "none"

====
